---------------------------- MODULE Spec2Model ----------------------------
(***************************************************************************)
(* The request pipeline of the OANDA connector: OandaClient's retry loop   *)
(* (request_with_retry), its response classification (handle_response)     *)
(* and the shared RateLimiter every attempt passes through.                *)
(*                                                                         *)
(* Two specifications share the limiter:                                   *)
(*   Spec         logical requests of one client running the pipeline;     *)
(*   LimiterSpec  tasks calling acquire() / try_acquire() on one limiter   *)
(*                directly, as the limiter's unit tests do.                *)
(*                                                                         *)
(* Time is a discrete clock `now`.  One replenish interval of the limiter  *)
(* (1/requests_per_second seconds) is TicksPerToken ticks, so one second   *)
(* is requests_per_second * TicksPerToken ticks.                           *)
(***************************************************************************)
EXTENDS Integers, Sequences, FiniteSets, TLC

(* ------------------------------ bounds --------------------------------- *)

\* largest max_retries enumerated besides u32::MAX
MaxRetriesBound == 2

\* requests_per_second ranges over 1 .. MaxRate
MaxRate == 2

\* clock ticks per replenish interval
TicksPerToken == 2

\* the clock stops at MaxTime
MaxTime == 4

\* logical requests running concurrently on the client (Spec)
NumRequests == 1

\* tasks calling the limiter directly (LimiterSpec)
NumCallers == 2

\* limiter calls these tasks make in all
MaxCalls == 5

\* loop iterations (values of `attempts`) at which the retry arithmetic is
\* evaluated on its own (BackoffSpec)
MaxAttemptNo == 66

\* The longest texts of which all are parsed.
MaxTextLen == 2

(* ------------------------- program constants --------------------------- *)

\* config.max_retries is a u32.  TLC's integers are 32-bit signed, so the
\* largest of them stands for u32::MAX (4294967295); only its being the
\* largest u32, the one whose successor overflows, is used.
U32Max == 2147483647

TimeoutBaseMs == 100

ConnectBaseMs == 500

DefaultRetryAfter == 60

\* width of the u64 the backoff delay is computed in
U64Bits == 64

\* decimal digits of u64::MAX
MaxU64Digits == 20

\* default_timeout(), in seconds.
DefaultTimeout == 10

\* The largest `count` get_candles accepts.
MaxCandles == 5000

Requests == 1 .. NumRequests

Callers == 1 .. NumCallers

\* The handles through which one client is used concurrently: the
\* OandaClient and a clone of it (#[derive(Clone)]).
Handles == {"client", "clone"}

\* The public methods that talk to the server.
Endpoints ==
    {"get_current_price", "get_current_prices", "get_candles",
     "get_candles_range", "get_account_summary", "get_instruments",
     "health_check"}

\* The `count` arguments of get_candles that are tried.
CandleCounts == {1, MaxCandles, MaxCandles + 1}

(* --------------------------- attempt outcomes -------------------------- *)

\* A header value is a string, here a sequence of characters; NoHeader is an
\* absent header.
NoHeader == <<"<absent>">>

Digits == {"0", "1", "2", "3", "4", "5", "6", "7", "8", "9"}

DigitValue(c) ==
    CASE c = "0" -> 0 [] c = "1" -> 1 [] c = "2" -> 2 [] c = "3" -> 3
      [] c = "4" -> 4 [] c = "5" -> 5 [] c = "6" -> 6 [] c = "7" -> 7
      [] c = "8" -> 8 [] c = "9" -> 9

\* 10^20, more than u64::MAX
TooLong ==
    <<"1", "0", "0", "0", "0", "0", "0", "0", "0", "0", "0",
      "0", "0", "0", "0", "0", "0", "0", "0", "0", "0">>

RetryAfterValues ==
    {<<"6", "0">>, <<"7">>, <<"0">>, <<"0", "0", "9">>, <<"+", "5">>, <<"-", "1">>,
     <<"s", "o", "o", "n">>, <<>>, TooLong}

\* The text of a response body, a string written as a sequence of pieces;
\* Unreadable is a body whose read fails.
Unreadable == <<"<unreadable>">>

Bodies == {<<"EUR_XYZ">>, <<>>, Unreadable}

\* reqwest::Error as the retry loop sees it: the two predicates it tests.
TransportErrors ==
    [kind : {"transport"}, is_timeout : BOOLEAN, is_connect : BOOLEAN]

Statuses == {200, 201, 400, 401, 403, 404, 429, 500, 503, 418}

\* The statuses whose arm of handle_response reads the body as text.
TextStatuses == {201, 400, 404, 418}

\* A completed HTTP response: status, Retry-After header, body, and whether
\* the body deserializes into the endpoint's type.
Responses ==
    [kind : {"response"}, status : Statuses \ ({200, 429} \cup TextStatuses),
     retry_after : {NoHeader}, body : {<<>>}, body_ok : {FALSE}]
    \cup [kind : {"response"}, status : TextStatuses,
          retry_after : {NoHeader}, body : Bodies, body_ok : {FALSE}]
    \cup [kind : {"response"}, status : {200},
          retry_after : {NoHeader}, body : {<<"{..}">>}, body_ok : BOOLEAN]
    \cup [kind : {"response"}, status : {429},
          retry_after : RetryAfterValues \cup {NoHeader}, body : {<<>>},
          body_ok : {FALSE}]

Outcomes == TransportErrors \cup Responses

(* ------------------------------- errors -------------------------------- *)

NoResult == [tag |-> "None"]

OkPayload == [tag |-> "Ok"]

HttpError(e) == [tag |-> "HttpError", e |-> e]

ApiError(code, message) == [tag |-> "ApiError", code |-> code, message |-> message]

RateLimitExceeded(secs) == [tag |-> "RateLimitExceeded", retry_after_seconds |-> secs]

AuthenticationFailed == [tag |-> "AuthenticationFailed"]

ConfigError(message) == [tag |-> "ConfigError", message |-> message]

\* Ok(value) of an endpoint method whose payload is a bool.
OkValue(value) == [tag |-> "Ok", value |-> value]

\* Error::is_retryable.
IsRetryable(error) == error.tag \in {"HttpError", "Timeout", "RateLimitExceeded"}

(* -------------------------------- state -------------------------------- *)

VARIABLES
    config,           \* OandaConfig: enable_retries, max_retries, requests_per_second
    overflow_checks,  \* build profile: integer overflow panics (debug) or wraps (release)
    now,              \* the clock
    limiter,          \* the RateLimiter: its quota and the governor's state
    grants,           \* history (LimiterSpec): the admitted calls, in order, with their instants
    refusals,         \* history (LimiterSpec): the try_acquire calls that returned None
    req,              \* per logical request: the position and locals of request_with_retry
    caller,           \* per task of LimiterSpec: its position in acquire()
    calls,            \* number of limiter calls the tasks of LimiterSpec have made
    probe             \* one evaluation of the retry arithmetic (BackoffSpec)

vars == <<config, overflow_checks, now, limiter, grants, refusals, req, caller, calls, probe>>


(* ------------------------------ helpers -------------------------------- *)

Max(a, b) == IF a >= b THEN a ELSE b

Last(s) == s[Len(s)]

RECURSIVE Pow2(_)
Pow2(n) == IF n = 0 THEN 1 ELSE 2 * Pow2(n - 1)

RECURSIVE BitLen(_)
\* the number of binary digits of n
BitLen(n) == IF n = 0 THEN 0 ELSE 1 + BitLen(n \div 2)

RECURSIVE U64(_)
\* A u64 value is written m * 2^e with m odd, or m = 0: the delays of the
\* retry loop are small multiples of large powers of two.  U64(n) is the
\* value n.
U64(n) ==
    IF n = 0 THEN [m |-> 0, e |-> 0]
    ELSE IF n % 2 = 0 THEN [U64(n \div 2) EXCEPT !.e = @ + 1]
    ELSE [m |-> n, e |-> 0]

\* 2u64.pow(k): whether it overflows, and its value modulo 2^64.
Pow2U64(k) ==
    IF k < U64Bits THEN [overflow |-> FALSE, value |-> [m |-> 1, e |-> k]]
    ELSE [overflow |-> TRUE, value |-> U64(0)]

\* a * w in u64, for a literal a and w a power of two or zero: whether it
\* overflows, and its value modulo 2^64.
MulU64(a, w) ==
    LET m == U64(a).m * w.m
        e == U64(a).e + w.e
    IN  IF m = 0 THEN [overflow |-> FALSE, value |-> U64(0)]
        ELSE IF BitLen(m) + e <= U64Bits
        THEN [overflow |-> FALSE, value |-> [m |-> m, e |-> e]]
        ELSE IF e >= U64Bits THEN [overflow |-> TRUE, value |-> U64(0)]
        ELSE [overflow |-> TRUE,
              value |-> [m |-> m % Pow2(U64Bits - e), e |-> e]]

RECURSIVE DigitsValue(_)
DigitsValue(s) ==
    IF s = <<>> THEN 0
    ELSE 10 * DigitsValue(SubSeq(s, 1, Len(s) - 1)) + DigitValue(Last(s))

RECURSIVE StripZeros(_)
\* s without its leading zeros
StripZeros(s) ==
    IF s # <<>> /\ s[1] = "0" THEN StripZeros(Tail(s)) ELSE s

\* str::parse::<u64>: an optional leading "+", then one or more decimal
\* digits whose value fits a u64.  The result is [ok, value].  A number of
\* more than MaxU64Digits significant digits does not fit; the shorter ones
\* among the header values enumerated do.
ParseU64(s) ==
    LET t == IF s # <<>> /\ s[1] = "+" THEN Tail(s) ELSE s
    IN  IF /\ t # <<>>
           /\ \A i \in 1 .. Len(t) : t[i] \in Digits
           /\ Len(StripZeros(t)) <= MaxU64Digits
        THEN [ok |-> TRUE, value |-> DigitsValue(StripZeros(t))]
        ELSE [ok |-> FALSE, value |-> 0]

(* ------------------------------ RateLimiter ---------------------------- *)

\* A limiter whose construction panicked does not exist.
NoLimiter == [exists |-> FALSE, max_burst |-> 0, tat |-> 0]

\* RateLimiter::new with a quota whose burst is one too large.
RateLimiterNewExtraBurst(requests_per_second) ==
    IF requests_per_second = 0 THEN NoLimiter
    ELSE [exists |-> TRUE, max_burst |-> requests_per_second + 1, tat |-> 0]

\* RateLimiter::new with a quota that allows no burst.
RateLimiterNewNoBurst(requests_per_second) ==
    IF requests_per_second = 0 THEN NoLimiter
    ELSE [exists |-> TRUE, max_burst |-> 1, tat |-> 0]

\* RateLimiter::new with a quota whose burst is twice the rate.
RateLimiterNewDoubleBurst(requests_per_second) ==
    IF requests_per_second = 0 THEN NoLimiter
    ELSE [exists |-> TRUE, max_burst |-> 2 * requests_per_second, tat |-> 0]

\* RateLimiter::new that builds a limiter for a zero rate instead of
\* panicking.
RateLimiterNewZeroAllowed(requests_per_second) ==
    [exists |-> TRUE, max_burst |-> requests_per_second, tat |-> 0]

\* RateLimiter::new: Quota::per_second(requests_per_second) allows a burst of
\* requests_per_second and replenishes one cell per 1/requests_per_second s;
\* NonZeroU32::new(0).expect(..) panics.
RateLimiterNew(requests_per_second) ==
    IF requests_per_second = 0 THEN NoLimiter
    ELSE [exists |-> TRUE, max_burst |-> requests_per_second, tat |-> 0]

\* The governor's GCRA state machine: `tat` is the theoretical arrival time
\* of the next cell, the burst tolerance is max_burst - 1 replenish
\* intervals, and a cell arriving at t0 conforms when t0 >= tat - tolerance.
Tolerance(l) == TicksPerToken * (l.max_burst - 1)

EarliestTime(l) == Max(l.tat - Tolerance(l), 0)

GovernorConforms(l, t0) == t0 >= EarliestTime(l)

GovernorAdmit(l, t0) == [l EXCEPT !.tat = Max(l.tat, t0) + TicksPerToken]

\* acquire() that returns without awaiting the governor.
AcquireAdmitsAlways(l, t0) == TRUE

\* try_acquire() that ignores the governor's answer.
TryAcquireAdmitsAlways(l, t0) == TRUE

\* RateLimiter::acquire returns a permit once governor.until_ready() has
\* admitted the call at instant t0.
AcquireAdmits(l, t0) == GovernorConforms(l, t0)

\* try_acquire() that needs the instant to lie strictly after the earliest
\* conforming one.
TryAcquireAdmitsStrictlyAfter(l, t0) == t0 > EarliestTime(l)

\* RateLimiter::try_acquire returns Some(permit) exactly when
\* governor.check() is Ok at instant t0.
TryAcquireAdmits(l, t0) == GovernorConforms(l, t0)

(* --------------------------- handle_response --------------------------- *)

\* A hint that falls back to 0, the default of u64.
RetryAfterSecondsOrZero(header) ==
    IF header = NoHeader THEN 0
    ELSE IF ParseU64(header).ok THEN ParseU64(header).value
    ELSE 0

\* The Retry-After hint of a 429 response.
RetryAfterSeconds(header) ==
    IF header = NoHeader THEN DefaultRetryAfter
    ELSE IF ParseU64(header).ok THEN ParseU64(header).value
    ELSE DefaultRetryAfter

\* response.text().await.unwrap_or_default()
ErrorText(response) ==
    IF response.body = Unreadable THEN <<>> ELSE response.body

\* handle_response without its UNAUTHORIZED arm.
HandleResponseResultNoAuthArm(response) ==
    CASE response.status = 200 ->
             IF response.body_ok THEN OkPayload
             ELSE ApiError(0, <<"Failed to parse response: ", "<decode error>">>)
      [] response.status = 403 -> AuthenticationFailed
      [] response.status = 429 ->
             RateLimitExceeded(RetryAfterSeconds(response.retry_after))
      [] OTHER -> ApiError(response.status, ErrorText(response))

\* handle_response with a fixed message in its NOT_FOUND arm.
HandleResponseResultBareNotFound(response) ==
    CASE response.status = 200 ->
             IF response.body_ok THEN OkPayload
             ELSE ApiError(0, <<"Failed to parse response: ", "<decode error>">>)
      [] response.status \in {401, 403} -> AuthenticationFailed
      [] response.status = 404 -> ApiError(404, <<"Resource not found">>)
      [] response.status = 429 ->
             RateLimitExceeded(RetryAfterSeconds(response.retry_after))
      [] response.status = 500 -> ApiError(500, <<"OANDA server error">>)
      [] response.status = 503 ->
             ApiError(503, <<"OANDA service temporarily unavailable">>)
      [] OTHER -> ApiError(response.status, ErrorText(response))

\* handle_response: the typed result of a completed response.
HandleResponseResult(response) ==
    CASE response.status = 200 ->
             IF response.body_ok THEN OkPayload
             ELSE ApiError(0, <<"Failed to parse response: ", "<decode error>">>)
      [] response.status = 400 -> ApiError(400, ErrorText(response))
      [] response.status = 401 -> AuthenticationFailed
      [] response.status = 403 -> AuthenticationFailed
      [] response.status = 404 ->
             ApiError(404, <<"Resource not found: ">> \o ErrorText(response))
      [] response.status = 429 ->
             RateLimitExceeded(RetryAfterSeconds(response.retry_after))
      [] response.status = 500 -> ApiError(500, <<"OANDA server error">>)
      [] response.status = 503 ->
             ApiError(503, <<"OANDA service temporarily unavailable">>)
      [] OTHER -> ApiError(response.status, ErrorText(response))

(* -------------------------- request_with_retry ------------------------- *)

\* Closures of which the account endpoints send without asking the limiter.
ClosureAcquiresExceptAccount(endpoint) ==
    endpoint \notin {"get_account_summary", "health_check"}

\* Whether the closure an endpoint method passes to request_with_retry
\* awaits rate_limiter.acquire() before it sends.  All six closures do;
\* health_check calls get_account_summary.
ClosureAcquires(endpoint) ==
    CASE endpoint = "get_current_price" -> TRUE
      [] endpoint = "get_current_prices" -> TRUE
      [] endpoint = "get_candles" -> TRUE
      [] endpoint = "get_candles_range" -> TRUE
      [] endpoint = "get_account_summary" -> TRUE
      [] endpoint = "get_instruments" -> TRUE
      [] endpoint = "health_check" -> TRUE

\* The retry loop entered whatever the configuration says.
RetriesAlwaysEnabled(c) == TRUE

\* `if !self.config.enable_retries`: whether the retry loop is entered.
RetriesEnabled(c) == c.enable_retries

\* A budget of max_retries + 2 attempts.
MaxAttemptsOneMore(n) == IF n = U32Max THEN 1 ELSE n + 2

\* self.config.max_retries + 1 in u32 arithmetic without overflow checks.
WrappingAdd1(n) == IF n = U32Max THEN 0 ELSE n + 1

\* The budget test written `attempts > max_attempts`.
RetryArmOffByOne(attempts, max_attempts, e) ==
    IF attempts > max_attempts THEN "exhausted"
    ELSE IF e.is_timeout THEN "timeout"
    ELSE IF e.is_connect THEN "connect"
    ELSE "other"

\* The connect arm written before the timeout arm.
RetryArmConnectFirst(attempts, max_attempts, e) ==
    IF attempts >= max_attempts THEN "exhausted"
    ELSE IF e.is_connect THEN "connect"
    ELSE IF e.is_timeout THEN "timeout"
    ELSE "other"

\* The arm of `match f().await` taken for a transport error e.
RetryArm(attempts, max_attempts, e) ==
    IF attempts >= max_attempts THEN "exhausted"
    ELSE IF e.is_timeout THEN "timeout"
    ELSE IF e.is_connect THEN "connect"
    ELSE "other"

\* A loop that sleeps and tries again after a 500 or 503 response.
MatchArmRetriesServerErrors(enabled, attempts, max_attempts, o) ==
    IF o.kind = "response"
    THEN IF enabled /\ o.status \in {500, 503} /\ attempts < max_attempts
         THEN "connect" ELSE "ok"
    ELSE IF ~enabled THEN "disabled"
    ELSE RetryArm(attempts, max_attempts, o)

\* A loop that treats a 429 response as a retryable failure.
MatchArmRetriesRateLimit(enabled, attempts, max_attempts, o) ==
    IF o.kind = "response"
    THEN IF enabled /\ o.status = 429 /\ attempts < max_attempts
         THEN "timeout" ELSE "ok"
    ELSE IF ~enabled THEN "disabled"
    ELSE RetryArm(attempts, max_attempts, o)

\* What request_with_retry does with the outcome o of f().await: a response
\* of any status is returned ("ok"); without retries an error is mapped to
\* HttpError ("disabled"); in the loop an error takes one of the Err arms.
MatchArm(enabled, attempts, max_attempts, o) ==
    IF o.kind = "response" THEN "ok"
    ELSE IF ~enabled THEN "disabled"
    ELSE RetryArm(attempts, max_attempts, o)

\* The budget arm returning the first failure of the request.
ExhaustedResultFirstFailure(outs, e) == HttpError(outs[1])

\* `Err(e) if attempts >= max_attempts => return Err(Error::HttpError(e))`:
\* the result when the budget is used up, outs being the outcomes of all
\* attempts and e the error of the one that just failed.
ExhaustedResult(outs, e) == HttpError(e)

\* base * 2u64.pow(attempts - 1), the milliseconds of the backoff sleep:
\* whether the arithmetic overflows (a panic in a build with overflow
\* checks), and the value it wraps to otherwise.
BackoffDelay(base, attempts) ==
    LET p == Pow2U64(attempts - 1)
        d == MulU64(base, p.value)
    IN  [overflow |-> p.overflow \/ d.overflow, ms |-> d.value]

\* One backoff track: the connect arm sleeping on the base of the timeout arm.
ArmDelaySingleTrack(arm, attempts) == BackoffDelay(TimeoutBaseMs, attempts)

\* The delay computed in the timeout arm and in the connect arm.
ArmDelay(arm, attempts) ==
    BackoffDelay(IF arm = "timeout" THEN TimeoutBaseMs ELSE ConnectBaseMs, attempts)

\* tokio::time::sleep(Duration::from_millis(delay)) started at instant t0:
\* the instant at which the task is run again.  One tick of the clock is
\* 1 / (requests_per_second * TicksPerToken) s; a sleep that ends after the
\* last instant of the clock ends at MaxTime + 1.
SleepWake(t0, delay, requests_per_second) ==
    IF BitLen(delay.m) + delay.e > 20 THEN MaxTime + 1
    ELSE LET ms == delay.m * Pow2(delay.e)
             ticks == (ms * requests_per_second * TicksPerToken + 999) \div 1000
         IN  IF t0 + ticks > MaxTime THEN MaxTime + 1 ELSE t0 + ticks

\* A logical request not yet started.  attempts and max_attempts are the
\* locals of request_with_retry; the rest is history: the permits acquired,
\* the HTTP requests sent, the outcome of every attempt, the length (ms) of
\* every backoff sleep, and the result returned to the caller.
InitRequest ==
    [pc |-> "start", endpoint |-> "get_current_price", count |-> 1,
     attempts |-> 0, max_attempts |-> 0, acquired |-> 0, sent |-> 0,
     outs |-> <<>>, delays |-> <<>>, result |-> NoResult, wake |-> 0,
     returned |-> NoResult, retryable |-> FALSE, dropped |-> "none"]

\* A logical request issued by the endpoint method `endpoint`, get_candles
\* with the argument `count`.
IssuedRequest(endpoint, count) ==
    [InitRequest EXCEPT !.endpoint = endpoint, !.count = count]

\* get_candles that also turns down the largest count.
CountRejectedAtLimit(count) == count >= MaxCandles

\* get_candles: `if count > 5000 { return Err(Error::ConfigError(..)) }`.
CountRejected(count) == count > MaxCandles

\* The error get_candles returns for a count that is too large.
CountError(count) ==
    ConfigError(<<"Count ", ToString(count), " exceeds maximum of 5000">>)

\* health_check that reports every failure as Ok(false).
HealthCheckResultAnyFailure(summary) ==
    IF summary.tag = "Ok" THEN OkValue(TRUE) ELSE OkValue(FALSE)

\* health_check: the match on what get_account_summary returned.
HealthCheckResult(summary) ==
    CASE summary.tag = "Ok" -> OkValue(TRUE)
      [] summary = AuthenticationFailed -> OkValue(FALSE)
      [] OTHER -> summary

\* What the endpoint method returns once request_with_retry and
\* handle_response have produced `result`: an error is propagated by `?`,
\* health_check maps the outcome of get_account_summary.
EndpointReturn(endpoint, result) ==
    IF endpoint = "health_check" THEN HealthCheckResult(result) ELSE result

\* The endpoint method returns, and its caller asks an error whether it is
\* retryable.
Finished(rq, result) ==
    LET returned == EndpointReturn(rq.endpoint, result)
    IN  [rq EXCEPT !.result = result,
                   !.returned = returned,
                   !.retryable = returned.tag # "Ok" /\ IsRetryable(returned),
                   !.pc = "done"]

InitCaller == [pc |-> "idle", wake |-> 0]

\* No evaluation of the retry arithmetic on its own.
NoProbe == [pc |-> "none"]

TypeOK ==
    /\ now \in 0 .. MaxTime
    /\ \A r \in DOMAIN req :
          /\ req[r].pc \in {"start", "wait", "send", "backoff", "done", "panicked",
                             "cancelled"}
          /\ req[r].endpoint \in Endpoints
    /\ \A c \in Callers : caller[c].pc \in {"idle", "wait"}

\* A client built by OandaClient::new from a validated configuration.
Init ==
    /\ config \in [enable_retries : BOOLEAN,
                   max_retries : (0 .. MaxRetriesBound) \cup {U32Max},
                   requests_per_second : 1 .. MaxRate]
    /\ overflow_checks \in (IF config.max_retries = U32Max THEN BOOLEAN ELSE {FALSE})
    /\ now = 0
    /\ limiter = RateLimiterNew(config.requests_per_second)
    /\ grants = <<>>
    /\ refusals = <<>>
    /\ req = [r \in Requests |-> InitRequest]
    /\ caller = [c \in Callers |-> InitCaller]
    /\ calls = 0
    /\ probe = NoProbe

\* The clock advances.
Tick ==
    /\ now < MaxTime
    /\ now' = now + 1
    /\ UNCHANGED <<config, overflow_checks, limiter, grants, refusals, req, caller, calls, probe>>

\* The closure every endpoint method passes to request_with_retry, polled
\* with the request's locals as in `base`: rate_limiter.acquire() is admitted
\* and the HTTP request is sent, or the task sleeps until the earliest
\* conforming instant.
CallClosure(r, base) ==
    IF ~ClosureAcquires(req[r].endpoint)
    THEN /\ req' = [base EXCEPT ![r].sent = @ + 1, ![r].pc = "send"]
         /\ UNCHANGED limiter
    ELSE IF AcquireAdmits(limiter, now)
    THEN /\ limiter' = GovernorAdmit(limiter, now)
         /\ req' = [base EXCEPT ![r].acquired = @ + 1,
                                ![r].sent = @ + 1,
                                ![r].wake = 0,
                                ![r].pc = "send"]
    ELSE /\ req' = [base EXCEPT ![r].wake = EarliestTime(limiter),
                                ![r].pc = "wait"]
         /\ UNCHANGED limiter

\* The endpoint method is called.  get_candles returns at once when its
\* count is too large.  Otherwise request_with_retry is entered: without
\* retries the closure is called once; with retries max_attempts is computed
\* and the loop starts its first iteration (attempts += 1; f()).
Start(r) ==
    /\ req[r].pc = "start"
    /\ IF req[r].endpoint = "get_candles" /\ CountRejected(req[r].count)
       THEN /\ req' = [req EXCEPT
                          ![r].returned = CountError(req[r].count),
                          ![r].retryable = IsRetryable(CountError(req[r].count)),
                          ![r].pc = "done"]
            /\ UNCHANGED limiter
       ELSE IF ~RetriesEnabled(config)
       THEN CallClosure(r, req)
       ELSE IF config.max_retries = U32Max /\ overflow_checks
       THEN /\ req' = [req EXCEPT ![r].pc = "panicked"]
            /\ UNCHANGED limiter
       ELSE CallClosure(r, [req EXCEPT
                               ![r].max_attempts = WrappingAdd1(config.max_retries),
                               ![r].attempts = 1])
    /\ UNCHANGED <<config, overflow_checks, now, grants, refusals, caller, calls, probe>>

\* The sleep of until_ready ends and the governor is asked again.
AcquireWake(r) ==
    /\ req[r].pc = "wait"
    /\ now >= req[r].wake
    /\ CallClosure(r, req)
    /\ UNCHANGED <<config, overflow_checks, now, grants, refusals, caller, calls, probe>>

\* The HTTP attempt completes with outcome o and request_with_retry acts on
\* it.  A response of any status is returned to the endpoint method, which
\* passes it to handle_response; a transport error is returned as HttpError
\* or leads to a backoff sleep.
HttpComplete(r, o) ==
    /\ req[r].pc = "send"
    /\ LET arm == MatchArm(RetriesEnabled(config), req[r].attempts,
                           req[r].max_attempts, o)
           seen == [req EXCEPT ![r].outs = Append(@, o)]
       IN  IF arm = "ok"
           THEN req' = [seen EXCEPT ![r] = Finished(@, HandleResponseResult(o))]
           ELSE IF arm \in {"timeout", "connect"}
           THEN IF ArmDelay(arm, req[r].attempts).overflow /\ overflow_checks
                THEN req' = [seen EXCEPT ![r].pc = "panicked"]
                ELSE req' = [seen EXCEPT
                               ![r].delays = Append(@, ArmDelay(arm, req[r].attempts).ms),
                               ![r].wake = SleepWake(now, ArmDelay(arm, req[r].attempts).ms,
                                                     config.requests_per_second),
                               ![r].pc = "backoff"]
           ELSE IF arm = "exhausted"
           THEN req' = [seen EXCEPT
                          ![r] = Finished(@, ExhaustedResult(seen[r].outs, o))]
           ELSE req' = [seen EXCEPT ![r] = Finished(@, HttpError(o))]
    /\ UNCHANGED <<config, overflow_checks, now, limiter, grants, refusals, caller, calls, probe>>

\* A retry that sends again on the permit of the failed attempt.
BackoffDoneReusesPermit(r) ==
    /\ req[r].pc = "backoff"
    /\ now >= req[r].wake
    /\ req' = [req EXCEPT ![r].attempts = @ + 1,
                          ![r].sent = @ + 1,
                          ![r].pc = "send"]
    /\ UNCHANGED <<config, overflow_checks, now, limiter, grants, refusals, caller, calls, probe>>

\* A retry that does not wait for the end of the backoff sleep.
BackoffDoneEarly(r) ==
    /\ req[r].pc = "backoff"
    /\ CallClosure(r, [req EXCEPT ![r].attempts = @ + 1])
    /\ UNCHANGED <<config, overflow_checks, now, grants, refusals, caller, calls, probe>>

\* A retry that bumps the attempt counter of every request of the client.
BackoffDoneSharedCounter(r) ==
    /\ req[r].pc = "backoff"
    /\ now >= req[r].wake
    /\ CallClosure(r, [h \in DOMAIN req |-> [req[h] EXCEPT !.attempts = @ + 1]])
    /\ UNCHANGED <<config, overflow_checks, now, grants, refusals, caller, calls, probe>>

\* The backoff sleep ends: `continue`, and the next iteration counts itself
\* and calls the closure again.
BackoffDone(r) ==
    /\ req[r].pc = "backoff"
    /\ now >= req[r].wake
    /\ CallClosure(r, [req EXCEPT ![r].attempts = @ + 1])
    /\ UNCHANGED <<config, overflow_checks, now, grants, refusals, caller, calls, probe>>

Next ==
    \/ Tick
    \/ \E r \in DOMAIN req : Start(r)
    \/ \E r \in DOMAIN req : AcquireWake(r)
    \/ \E r \in DOMAIN req : \E o \in Outcomes : HttpComplete(r, o)
    \/ \E r \in DOMAIN req : BackoffDone(r)

Spec == Init /\ [][Next]_vars

(* ----------------------- requests that are cancelled -------------------- *)

\* A cancellation that hands the permit of the attempt in flight back to the
\* limiter.
CancelReturnsPermit(r) ==
    /\ req[r].pc \in {"wait", "send", "backoff"}
    /\ req' = [req EXCEPT ![r].dropped = req[r].pc, ![r].pc = "cancelled"]
    /\ limiter' = IF req[r].pc = "send"
                  THEN [limiter EXCEPT !.tat = Max(@ - TicksPerToken, 0)]
                  ELSE limiter
    /\ UNCHANGED <<config, overflow_checks, now, grants, refusals, caller, calls, probe>>

\* The caller drops the future of a logical request at one of its await
\* points: the sleep inside acquire(), the HTTP call or the backoff sleep.
\* Nothing runs on the drop: until_ready has reserved nothing while it
\* sleeps, and RateLimitPermit has no Drop implementation.
Cancel(r) ==
    /\ req[r].pc \in {"wait", "send", "backoff"}
    /\ req' = [req EXCEPT ![r].dropped = req[r].pc, ![r].pc = "cancelled"]
    /\ UNCHANGED <<config, overflow_checks, now, limiter, grants, refusals, caller, calls, probe>>

CancelNext ==
    \/ Next
    \/ \E r \in DOMAIN req : Cancel(r)

CancelSpec == Init /\ [][CancelNext]_vars

(* ------------------ one client used through two handles ---------------- *)

\* The client and a clone of it, each with one logical request to issue:
\* the client's through any endpoint method, the clone's through
\* get_account_summary.  The clone holds the same Arc<RateLimiter>: there
\* is one limiter.  One retry is allowed when retries are enabled.
SharedInit ==
    /\ config \in [enable_retries : BOOLEAN,
                   max_retries : {1},
                   requests_per_second : 1 .. MaxRate]
    /\ overflow_checks = FALSE
    /\ now = 0
    /\ limiter = RateLimiterNew(config.requests_per_second)
    /\ grants = <<>>
    /\ refusals = <<>>
    /\ \E endpoint \in Endpoints :
          \E count \in (IF endpoint = "get_candles" THEN CandleCounts ELSE {1}) :
              req = [h \in Handles |->
                        IF h = "client" THEN IssuedRequest(endpoint, count)
                        ELSE IssuedRequest("get_account_summary", 1)]
    /\ caller = [c \in Callers |-> InitCaller]
    /\ calls = 0
    /\ probe = NoProbe

SharedSpec == SharedInit /\ [][Next]_vars

(* ----------------------- construction of the client -------------------- *)

\* validate() that does not look at requests_per_second.
ValidateSkipsRate(cfg) ==
    IF cfg.api_key = "" THEN ConfigError(<<"API key cannot be empty">>)
    ELSE IF cfg.account_id = "" THEN ConfigError(<<"Account ID cannot be empty">>)
    ELSE IF cfg.timeout_seconds = 0
    THEN ConfigError(<<"Timeout must be greater than 0">>)
    ELSE OkPayload

\* OandaConfig::validate: Ok(()) or the error of the first check that fails.
Validate(cfg) ==
    IF cfg.api_key = "" THEN ConfigError(<<"API key cannot be empty">>)
    ELSE IF cfg.account_id = "" THEN ConfigError(<<"Account ID cannot be empty">>)
    ELSE IF cfg.timeout_seconds = 0
    THEN ConfigError(<<"Timeout must be greater than 0">>)
    ELSE IF cfg.requests_per_second = 0
    THEN ConfigError(<<"Requests per second must be greater than 0">>)
    ELSE OkPayload

\* The configuration part of a client: none exists.
NoConfig == [enable_retries |-> FALSE, max_retries |-> 0, requests_per_second |-> 0]

\* An OandaClientBuilder holding a configuration whose fields, all public,
\* may have any value.
BuildInit ==
    /\ probe \in [pc : {"builder"},
                  cfg : [api_key : {"", "key"},
                         account_id : {"", "101-001"},
                         timeout_seconds : {0, DefaultTimeout},
                         requests_per_second : 0 .. MaxRate,
                         enable_retries : {TRUE},
                         max_retries : {MaxRetriesBound}],
                  last : {"new"},
                  result : {NoResult}]
    /\ config = NoConfig
    /\ overflow_checks = FALSE
    /\ now = 0
    /\ limiter = NoLimiter
    /\ grants = <<>>
    /\ refusals = <<>>
    /\ req = [r \in Requests |-> InitRequest]
    /\ caller = [c \in Callers |-> InitCaller]
    /\ calls = 0

\* The setters of the builder store their argument in the configuration.
SetTimeout(seconds) ==
    /\ probe.pc = "builder"
    /\ probe' = [probe EXCEPT !.cfg.timeout_seconds = seconds, !.last = "timeout"]
    /\ UNCHANGED <<config, overflow_checks, now, limiter, grants, refusals, req, caller, calls>>

SetRateLimit(requests_per_second) ==
    /\ probe.pc = "builder"
    /\ probe' = [probe EXCEPT !.cfg.requests_per_second = requests_per_second,
                              !.last = "rate_limit"]
    /\ UNCHANGED <<config, overflow_checks, now, limiter, grants, refusals, req, caller, calls>>

SetRetries(enable) ==
    /\ probe.pc = "builder"
    /\ probe' = [probe EXCEPT !.cfg.enable_retries = enable, !.last = "retries"]
    /\ UNCHANGED <<config, overflow_checks, now, limiter, grants, refusals, req, caller, calls>>

SetMaxRetries(max) ==
    /\ probe.pc = "builder"
    /\ probe' = [probe EXCEPT !.cfg.max_retries = max, !.last = "max_retries"]
    /\ UNCHANGED <<config, overflow_checks, now, limiter, grants, refusals, req, caller, calls>>

\* build(): OandaClient::new(self.config).  validate()? comes first, then
\* the HTTP client is built (http_ok: whether that succeeds), then
\* RateLimiter::new, which panics on a zero rate.
Build(http_ok) ==
    /\ probe.pc = "builder"
    /\ IF Validate(probe.cfg) # OkPayload
       THEN /\ probe' = [probe EXCEPT !.pc = "rejected", !.result = Validate(probe.cfg)]
            /\ UNCHANGED <<config, limiter>>
       ELSE IF ~http_ok
       THEN /\ probe' = [probe EXCEPT !.pc = "rejected",
                                      !.result = HttpError([kind |-> "builder"])]
            /\ UNCHANGED <<config, limiter>>
       ELSE IF ~RateLimiterNew(probe.cfg.requests_per_second).exists
       THEN /\ probe' = [probe EXCEPT !.pc = "panicked"]
            /\ UNCHANGED <<config, limiter>>
       ELSE /\ probe' = [probe EXCEPT !.pc = "built", !.result = OkPayload]
            /\ limiter' = RateLimiterNew(probe.cfg.requests_per_second)
            /\ config' = [enable_retries |-> probe.cfg.enable_retries,
                          max_retries |-> probe.cfg.max_retries,
                          requests_per_second |-> probe.cfg.requests_per_second]
    /\ UNCHANGED <<overflow_checks, now, grants, refusals, req, caller, calls>>

BuildNext ==
    \/ \E seconds \in {0, DefaultTimeout} : SetTimeout(seconds)
    \/ \E requests_per_second \in 0 .. MaxRate : SetRateLimit(requests_per_second)
    \/ \E enable \in BOOLEAN : SetRetries(enable)
    \/ \E max \in 0 .. MaxRetriesBound : SetMaxRetries(max)
    \/ \E http_ok \in BOOLEAN : Build(http_ok)

BuildSpec == BuildInit /\ [][BuildNext]_vars

(* ------------------------ Granularity as text -------------------------- *)

\* The variants of Granularity.
Granularities ==
    {"S5", "S10", "S15", "S30", "M1", "M2", "M5", "M15", "M30", "H1", "H4",
     "D", "W", "M"}

OkGranularity(g) == [tag |-> "Ok", value |-> g]

InvalidGranularity(s) == [tag |-> "InvalidGranularity", text |-> s]

\* U+017F, a lower-case letter other than "s" whose upper case is "S".
LongS == "<U+017F>"

\* The characters the texts are made of.
Chars ==
    {"S", "s", LongS, "M", "m", "H", "h", "D", "d", "W", "w", "0", "1", "5", " "}

\* char::to_uppercase on these characters.
UpperChar(c) ==
    CASE c \in {"s", LongS} -> "S"
      [] c = "m" -> "M"
      [] c = "h" -> "H"
      [] c = "d" -> "D"
      [] c = "w" -> "W"
      [] OTHER -> c

\* str::to_uppercase.
ToUppercase(s) == [i \in 1 .. Len(s) |-> UpperChar(s[i])]

\* impl Display for Granularity: the text written for g.
Display(g) ==
    CASE g = "S5" -> <<"S", "5">>
      [] g = "S10" -> <<"S", "1", "0">>
      [] g = "S15" -> <<"S", "1", "5">>
      [] g = "S30" -> <<"S", "3", "0">>
      [] g = "M1" -> <<"M", "1">>
      [] g = "M2" -> <<"M", "2">>
      [] g = "M5" -> <<"M", "5">>
      [] g = "M15" -> <<"M", "1", "5">>
      [] g = "M30" -> <<"M", "3", "0">>
      [] g = "H1" -> <<"H", "1">>
      [] g = "H4" -> <<"H", "4">>
      [] g = "D" -> <<"D">>
      [] g = "W" -> <<"W">>
      [] g = "M" -> <<"M">>

\* from_str whose last arm yields the weekly granularity.
FromStrMonthAsWeek(s) ==
    LET upper == ToUppercase(s)
    IN  CASE upper = <<"S", "5">> -> OkGranularity("S5")
          [] upper = <<"S", "1", "0">> -> OkGranularity("S10")
          [] upper = <<"S", "1", "5">> -> OkGranularity("S15")
          [] upper = <<"S", "3", "0">> -> OkGranularity("S30")
          [] upper = <<"M", "1">> -> OkGranularity("M1")
          [] upper = <<"M", "2">> -> OkGranularity("M2")
          [] upper = <<"M", "5">> -> OkGranularity("M5")
          [] upper = <<"M", "1", "5">> -> OkGranularity("M15")
          [] upper = <<"M", "3", "0">> -> OkGranularity("M30")
          [] upper = <<"H", "1">> -> OkGranularity("H1")
          [] upper = <<"H", "4">> -> OkGranularity("H4")
          [] upper = <<"D">> -> OkGranularity("D")
          [] upper = <<"W">> -> OkGranularity("W")
          [] upper = <<"M">> -> OkGranularity("W")
          [] OTHER -> InvalidGranularity(s)

\* impl FromStr for Granularity: the match on s.to_uppercase().
FromStr(s) ==
    LET upper == ToUppercase(s)
    IN  CASE upper = <<"S", "5">> -> OkGranularity("S5")
          [] upper = <<"S", "1", "0">> -> OkGranularity("S10")
          [] upper = <<"S", "1", "5">> -> OkGranularity("S15")
          [] upper = <<"S", "3", "0">> -> OkGranularity("S30")
          [] upper = <<"M", "1">> -> OkGranularity("M1")
          [] upper = <<"M", "2">> -> OkGranularity("M2")
          [] upper = <<"M", "5">> -> OkGranularity("M5")
          [] upper = <<"M", "1", "5">> -> OkGranularity("M15")
          [] upper = <<"M", "3", "0">> -> OkGranularity("M30")
          [] upper = <<"H", "1">> -> OkGranularity("H1")
          [] upper = <<"H", "4">> -> OkGranularity("H4")
          [] upper = <<"D">> -> OkGranularity("D")
          [] upper = <<"W">> -> OkGranularity("W")
          [] upper = <<"M">> -> OkGranularity("M")
          [] OTHER -> InvalidGranularity(s)

\* The texts that are parsed: every text of at most MaxTextLen characters
\* and the names of the variants in upper and in lower case.
Texts ==
    UNION {[1 .. n -> Chars] : n \in 0 .. MaxTextLen}
    \cup {Display(g) : g \in Granularities}
    \cup {<<"s", "1", "0">>, <<"s", "1", "5">>, <<"s", "3", "0">>,
          <<"m", "1", "5">>, <<"m", "3", "0">>,
          <<"S", "5", " ">>, <<" ", "S", "5">>, <<"S", "0", "5">>}

\* A Granularity that is to be written and read back, or a text that is to
\* be parsed.
GranularityInit ==
    /\ probe \in [pc : {"value"}, g : Granularities, text : {<<>>}, parsed : {NoResult}]
                 \cup [pc : {"text"}, g : {"none"}, text : Texts, parsed : {NoResult}]
    /\ config = NoConfig
    /\ overflow_checks = FALSE
    /\ now = 0
    /\ limiter = NoLimiter
    /\ grants = <<>>
    /\ refusals = <<>>
    /\ req = [r \in Requests |-> InitRequest]
    /\ caller = [c \in Callers |-> InitCaller]
    /\ calls = 0

\* g.to_string().
Format ==
    /\ probe.pc = "value"
    /\ probe' = [probe EXCEPT !.text = Display(probe.g), !.pc = "text"]
    /\ UNCHANGED <<config, overflow_checks, now, limiter, grants, refusals, req, caller, calls>>

\* text.parse::<Granularity>().
Parse ==
    /\ probe.pc = "text"
    /\ probe' = [probe EXCEPT !.parsed = FromStr(probe.text), !.pc = "parsed"]
    /\ UNCHANGED <<config, overflow_checks, now, limiter, grants, refusals, req, caller, calls>>

GranularityNext ==
    \/ Format
    \/ Parse

GranularitySpec == GranularityInit /\ [][GranularityNext]_vars

(* ------------------ the retry arithmetic on its own -------------------- *)

\* The loop of request_with_retry in its iteration number `attempts`, the
\* attempt having failed with transport error e, under a budget of
\* MaxAttemptNo attempts.
BackoffInit ==
    /\ config \in [enable_retries : {TRUE},
                   max_retries : {MaxAttemptNo - 1, U32Max},
                   requests_per_second : {1}]
    /\ overflow_checks \in BOOLEAN
    /\ now = 0
    /\ limiter = RateLimiterNew(config.requests_per_second)
    /\ grants = <<>>
    /\ refusals = <<>>
    /\ req = [r \in Requests |-> InitRequest]
    /\ caller = [c \in Callers |-> InitCaller]
    /\ calls = 0
    /\ probe \in [pc : {"input"}, attempts : 1 .. MaxAttemptNo,
                  e : TransportErrors, max_attempts : {0}, arm : {"none"},
                  panicked : {FALSE}, delay : {U64(0)}]

\* `let max_attempts = self.config.max_retries + 1` and `match f().await`
\* on Err(e): the budget, the arm taken and, in the timeout and connect
\* arms, the delay computed.  An overflow panics in a build with overflow
\* checks.
EvaluateBackoff ==
    /\ probe.pc = "input"
    /\ LET max_attempts == WrappingAdd1(config.max_retries)
           arm == RetryArm(probe.attempts, max_attempts, probe.e)
           d == ArmDelay(arm, probe.attempts)
       IN  probe' =
             IF config.max_retries = U32Max /\ overflow_checks
             THEN [probe EXCEPT !.pc = "output", !.panicked = TRUE]
             ELSE IF arm \in {"timeout", "connect"}
             THEN [probe EXCEPT !.pc = "output", !.arm = arm,
                                !.max_attempts = max_attempts,
                                !.panicked = d.overflow /\ overflow_checks,
                                !.delay = IF d.overflow /\ overflow_checks
                                          THEN U64(0) ELSE d.ms]
             ELSE [probe EXCEPT !.pc = "output", !.arm = arm,
                                !.max_attempts = max_attempts]
    /\ UNCHANGED <<config, overflow_checks, now, limiter, grants, refusals, req, caller, calls>>

BackoffNext == EvaluateBackoff

BackoffSpec == BackoffInit /\ [][BackoffNext]_vars

(* ------------------- direct use of the RateLimiter --------------------- *)

\* A limiter built by RateLimiter::new(n), used by concurrent tasks.
LimiterInit ==
    /\ \E n \in 0 .. MaxRate :
          /\ limiter = RateLimiterNew(n)
          /\ config = [enable_retries |-> FALSE, max_retries |-> 0,
                       requests_per_second |-> n]
    /\ overflow_checks = FALSE
    /\ now = 0
    /\ grants = <<>>
    /\ refusals = <<>>
    /\ req = [r \in Requests |-> InitRequest]
    /\ caller = [c \in Callers |-> InitCaller]
    /\ calls = 0
    /\ probe = NoProbe

\* A poll of governor.until_ready() by task c: the call is admitted, or the
\* task sleeps until the earliest conforming instant and will ask again.
PollGovernor(c, base) ==
    IF AcquireAdmits(limiter, now)
    THEN /\ limiter' = GovernorAdmit(limiter, now)
         /\ caller' = [base EXCEPT ![c].wake = 0, ![c].pc = "idle"]
    ELSE /\ caller' = [base EXCEPT ![c].wake = EarliestTime(limiter),
                                   ![c].pc = "wait"]
         /\ UNCHANGED limiter

\* A poll of acquire() by task c, entered in the history.  `waited` tells a
\* poll after a sleep from the poll of the call itself.
PollAcquire(c, base, waited) ==
    /\ PollGovernor(c, base)
    /\ grants' = IF AcquireAdmits(limiter, now)
                 THEN Append(grants, [at |-> now, op |-> "acquire", waited |-> waited])
                 ELSE grants

\* A task calls acquire().
CallAcquire(c) ==
    /\ limiter.exists
    /\ caller[c].pc = "idle"
    /\ calls < MaxCalls
    /\ calls' = calls + 1
    /\ PollAcquire(c, caller, FALSE)
    /\ UNCHANGED <<config, overflow_checks, now, refusals, req, probe>>

\* The sleep of until_ready ends and the governor is asked again.
CallerWake(c) ==
    /\ caller[c].pc = "wait"
    /\ now >= caller[c].wake
    /\ PollAcquire(c, caller, TRUE)
    /\ UNCHANGED <<config, overflow_checks, now, refusals, req, calls, probe>>

\* try_acquire() whose refusal still reserves a cell.
TryAcquireRefusalConsumes(c) ==
    /\ limiter.exists
    /\ caller[c].pc = "idle"
    /\ calls < MaxCalls
    /\ calls' = calls + 1
    /\ limiter' = GovernorAdmit(limiter, now)
    /\ IF TryAcquireAdmits(limiter, now)
       THEN /\ grants' = Append(grants, [at |-> now, op |-> "try_acquire", waited |-> FALSE])
            /\ UNCHANGED refusals
       ELSE /\ refusals' = Append(refusals, [at |-> now, granted |-> Len(grants)])
            /\ UNCHANGED grants
    /\ UNCHANGED <<config, overflow_checks, now, req, caller, probe>>

\* A task calls try_acquire(): Some(permit) or None at once.
TryAcquire(c) ==
    /\ limiter.exists
    /\ caller[c].pc = "idle"
    /\ calls < MaxCalls
    /\ calls' = calls + 1
    /\ IF TryAcquireAdmits(limiter, now)
       THEN /\ limiter' = GovernorAdmit(limiter, now)
            /\ grants' = Append(grants, [at |-> now, op |-> "try_acquire", waited |-> FALSE])
            /\ UNCHANGED refusals
       ELSE /\ refusals' = Append(refusals, [at |-> now, granted |-> Len(grants)])
            /\ UNCHANGED <<limiter, grants>>
    /\ UNCHANGED <<config, overflow_checks, now, req, caller, probe>>

LimiterNext ==
    \/ Tick
    \/ \E c \in Callers : CallAcquire(c)
    \/ \E c \in Callers : CallerWake(c)
    \/ \E c \in Callers : TryAcquire(c)

LimiterSpec == LimiterInit /\ [][LimiterNext]_vars

(* ------------- the RateLimiter under unending contention --------------- *)

\* The same tasks calling without end: no history is kept, and once the
\* clock has reached MaxTime the passing of time moves the origin of the
\* clock instead, so that the instants the limiter and the sleeping tasks
\* hold come one tick nearer (an instant already past stays past).

ClockRebase ==
    /\ now = MaxTime
    /\ limiter' = [limiter EXCEPT !.tat = Max(@ - 1, 0)]
    /\ caller' = [c \in Callers |-> [caller[c] EXCEPT !.wake = Max(@ - 1, 0)]]
    /\ UNCHANGED <<config, overflow_checks, now, grants, refusals, req, calls, probe>>

\* A task calls acquire().
Acquire(c) ==
    /\ limiter.exists
    /\ caller[c].pc = "idle"
    /\ PollGovernor(c, caller)
    /\ UNCHANGED <<config, overflow_checks, now, grants, refusals, req, calls, probe>>

\* The sleep of until_ready ends and the governor is asked again.
AcquireRetry(c) ==
    /\ caller[c].pc = "wait"
    /\ now >= caller[c].wake
    /\ PollGovernor(c, caller)
    /\ UNCHANGED <<config, overflow_checks, now, grants, refusals, req, calls, probe>>

\* A task calls try_acquire().
TryAcquireNow(c) ==
    /\ limiter.exists
    /\ caller[c].pc = "idle"
    /\ limiter' = IF TryAcquireAdmits(limiter, now)
                  THEN GovernorAdmit(limiter, now) ELSE limiter
    /\ UNCHANGED <<config, overflow_checks, now, grants, refusals, req, caller, calls, probe>>

ContendedNext ==
    \/ Tick
    \/ ClockRebase
    \/ \E c \in Callers : Acquire(c)
    \/ \E c \in Callers : AcquireRetry(c)
    \/ \E c \in Callers : TryAcquireNow(c)

\* Time passes, and a task whose sleep has ended is run again; whether and
\* when a task calls the limiter is up to the task.
ContendedSpec ==
    /\ LimiterInit
    /\ [][ContendedNext]_vars
    /\ WF_vars(Tick)
    /\ WF_vars(ClockRebase)
    /\ \A c \in Callers : WF_vars(AcquireRetry(c))

(* ======================= claims about the pipeline ===================== *)

IsTimeout(o) == o.kind = "transport" /\ o.is_timeout

IsStatus(o, status) == o.kind = "response" /\ o.status = status

IsFailure(o) == o.kind = "transport" \/ o.status # 200

RECURSIVE TotalAcquired(_)
TotalAcquired(S) ==
    IF S = {} THEN 0
    ELSE LET r == CHOOSE x \in S : TRUE
         IN  req[r].acquired + TotalAcquired(S \ {r})

\* C1 (as claimed): with retries enabled and max_retries = K, a request whose
\* every attempt timed out has made exactly K + 1 attempts when it returns,
\* and returns Error::Timeout.
C1_TimeoutsEndInTimeoutError ==
    \A r \in Requests :
        ( /\ config.enable_retries
          /\ req[r].pc = "done"
          /\ \A i \in 1 .. Len(req[r].outs) : IsTimeout(req[r].outs[i]) )
        => /\ req[r].sent - 1 = config.max_retries
           /\ req[r].result.tag = "Timeout"

\* C2: with retries enabled a request never makes more than max_retries + 1
\* HTTP attempts, whatever the attempts' outcomes.
C2_AttemptsWithinBudget ==
    \A r \in Requests :
        config.enable_retries => req[r].sent - 1 <= config.max_retries

\* A request that used its whole budget of three attempts.
C2_BudgetReached ==
    \E r \in Requests :
        /\ config.enable_retries
        /\ config.max_retries = 2
        /\ req[r].sent = 3
        /\ req[r].pc = "done"

\* C3 (as claimed): with retries enabled and budget remaining, an attempt
\* answered 429 with Retry-After: 60 leaves the request in the retry loop,
\* sleeping the 60 seconds of the hint before its next attempt.
C3_RateLimitRetriedInLoop ==
    \A r \in Requests :
        ( /\ config.enable_retries
          /\ req[r].outs # <<>>
          /\ IsStatus(Last(req[r].outs), 429)
          /\ Last(req[r].outs).retry_after = <<"6", "0">>
          /\ Len(req[r].outs) < req[r].max_attempts )
        => /\ req[r].pc = "backoff"
           /\ Last(req[r].delays) = U64(60 * 1000)

\* C4: a 401 response ends the request at once with AuthenticationFailed,
\* under every retry configuration: it is the last attempt, and when it
\* answers the first attempt the request has made exactly one.
C4_UnauthorizedNeverRetried ==
    \A r \in Requests :
        \A i \in 1 .. Len(req[r].outs) :
            IsStatus(req[r].outs[i], 401)
            => /\ i = Len(req[r].outs)
               /\ req[r].sent = i
               /\ req[r].acquired = i
               /\ req[r].pc = "done"
               /\ req[r].result = AuthenticationFailed
               /\ (i = 1 => req[r].delays = <<>>)

\* A first attempt answered 401 while retries are enabled and budget remains.
C4_UnauthorizedWithBudget ==
    \E r \in Requests :
        /\ config.enable_retries
        /\ config.max_retries = 2
        /\ Len(req[r].outs) = 1
        /\ IsStatus(req[r].outs[1], 401)
        /\ req[r].pc = "done"

\* C5: with retries disabled the request makes one attempt on one permit
\* and takes no backoff; any failure of that attempt is its result: a
\* transport error as HttpError, a 429 as RateLimitExceeded, any other
\* non-200 status as an error.
C5_NoRetryWhenDisabled ==
    \A r \in Requests :
        ~config.enable_retries
        => /\ req[r].sent <= 1
           /\ req[r].acquired <= 1
           /\ req[r].delays = <<>>
           /\ req[r].outs # <<>>
              => /\ Len(req[r].outs) = 1
                 /\ req[r].pc = "done"
                 /\ req[r].result # NoResult
                 /\ IsFailure(req[r].outs[1]) => req[r].result # OkPayload
                 /\ req[r].outs[1].kind = "transport"
                    => req[r].result = HttpError(req[r].outs[1])
                 /\ IsStatus(req[r].outs[1], 429)
                    => req[r].result.tag = "RateLimitExceeded"

\* A timed-out attempt returned although max_retries would allow retries.
C5_TimeoutReturnedAtOnce ==
    \E r \in Requests :
        /\ ~config.enable_retries
        /\ config.max_retries = 2
        /\ req[r].pc = "done"
        /\ IsTimeout(req[r].outs[1])
        /\ req[r].sent = 1

\* C6: every HTTP attempt is sent on a permit acquired for it: a request
\* that has sent n attempts has completed n acquire() calls, one more than
\* the backoff sleeps it took, and every one of them took a cell from the
\* limiter.
C6_OnePermitPerAttempt ==
    /\ \A r \in Requests :
          /\ req[r].acquired = req[r].sent
          /\ req[r].pc \in {"backoff", "done"} => req[r].acquired = Len(req[r].outs)
          /\ req[r].pc = "send" => req[r].acquired = Len(req[r].outs) + 1
          /\ req[r].pc = "done" => req[r].acquired = Len(req[r].delays) + 1
    /\ TotalAcquired(Requests) * TicksPerToken <= limiter.tat

\* A request that retried twice and so consumed three permits.
C6_ThreePermits ==
    \E r \in Requests :
        /\ req[r].pc = "done"
        /\ Len(req[r].delays) = 2
        /\ req[r].acquired = 3

(* ======================= claims about the limiter ====================== *)

\* The capacity C and rate R the limiter was asked for.
Cap == config.requests_per_second

\* C7: in every interleaving of acquire() and try_acquire() calls, the
\* admissions within any stretch of time t number at most C + R*t; at one
\* instant, at most C.
C7_NoOverAdmission ==
    \A i \in 1 .. Len(grants) :
        \A j \in i .. Len(grants) :
            (j - i + 1 - Cap) * TicksPerToken <= grants[j].at - grants[i].at

\* acquire() and try_acquire() interleaved at one instant: a burst of two
\* admitted, one by each operation, then a try_acquire refused and an
\* acquire() left waiting.
C7_ContendedBurst ==
    /\ Cap = 2
    /\ Len(grants) = 2
    /\ grants[1].at = now /\ grants[2].at = now
    /\ grants[1].op # grants[2].op
    /\ refusals # <<>>
    /\ \E c \in Callers : caller[c].pc = "wait"

\* C8: on a fresh limiter with no time elapsed, try_acquire admits at most
\* C calls and refuses a call only once C have been admitted.
C8_TryAcquireBurst ==
    /\ Cardinality({k \in 1 .. Len(grants) : grants[k].at = 0}) <= Cap
    /\ \A i \in 1 .. Len(refusals) :
          refusals[i].at = 0 => refusals[i].granted = Cap

\* Two try_acquire calls admitted and the third refused, all at instant 0.
C8_ThirdRefused ==
    /\ Cap = 2
    /\ now = 0
    /\ Len(grants) = 2
    /\ \A k \in 1 .. 2 : grants[k].op = "try_acquire"
    /\ Len(refusals) = 1
    /\ refusals[1] = [at |-> 0, granted |-> 2]

\* C9: the first C admissions are never delayed: an acquire() that has to
\* wait, or was admitted after waiting, has at least C admissions before it.
C9_BurstNotDelayed ==
    /\ \A c \in Callers : caller[c].pc = "wait" => Len(grants) >= Cap
    /\ \A i \in 1 .. Len(grants) : grants[i].waited => i > Cap

\* Two acquire() calls admitted at one instant without waiting; the third
\* admitted only after waiting.
C9_BurstThenWait ==
    /\ Cap = 2
    /\ Len(grants) = 3
    /\ \A k \in 1 .. 2 : grants[k].op = "acquire" /\ ~grants[k].waited
    /\ grants[1].at = grants[2].at
    /\ grants[3].waited

\* C10: the (C + k)-th admission comes no earlier than k replenish
\* intervals (k/R seconds) after the first.
C10_EarliestEligible ==
    \A n \in 1 .. Len(grants) :
        n > Cap => grants[n].at - grants[1].at >= (n - Cap) * TicksPerToken

\* The (C + 2)-th admission exactly two replenish intervals after the first.
C10_SecondRefill ==
    /\ Cap = 2
    /\ Len(grants) = 4
    /\ grants[4].op = "acquire"
    /\ grants[4].at - grants[1].at = 2 * TicksPerToken

(* ================= claims about the pipeline, continued ================ *)

RECURSIVE TotalSent(_)
TotalSent(S) ==
    IF S = {} THEN 0
    ELSE LET r == CHOOSE x \in S : TRUE
         IN  req[r].sent + TotalSent(S \ {r})

\* C11: the limiter is the sole admission point.  Whatever the endpoint
\* method, with retries enabled or disabled, on a first attempt or a retry,
\* a request has completed an acquire() for every HTTP attempt it has sent,
\* and the attempts sent through the client and through its clone have all
\* taken their cell from the one limiter the two share.
C11_SoleAdmissionPoint ==
    /\ \A h \in Handles : req[h].sent <= req[h].acquired
    /\ TotalSent(Handles) * TicksPerToken <= limiter.tat

\* The client has sent a retry through get_instruments, and the request of
\* its clone is waiting in acquire() for the cells the client's took.
C11_CloneWaitsForClient ==
    /\ config.enable_retries
    /\ req["client"].endpoint = "get_instruments"
    /\ req["client"].sent = 2
    /\ req["clone"].pc = "wait"
    /\ req["clone"].sent = 0

IsRetryableTransport(o) == o.kind = "transport" /\ (o.is_timeout \/ o.is_connect)

\* C12 (as claimed): with retries enabled, when an attempt fails with a
\* transport error while fewer than max_retries + 1 attempts have been made,
\* a timeout or connection failure is followed by a backoff and another
\* attempt, and any other transport error is returned at once as HttpError;
\* so only timeouts and connection failures ever precede a further attempt.
C12_RetryableTransportRetried ==
    \A r \in Requests :
        config.enable_retries
        => /\ \A i \in 1 .. Len(req[r].outs) - 1 :
                  IsRetryableTransport(req[r].outs[i])
           /\ ( /\ req[r].pc \in {"backoff", "done"}
                /\ Last(req[r].outs).kind = "transport"
                /\ Len(req[r].outs) <= config.max_retries )
              => IF IsRetryableTransport(Last(req[r].outs))
                 THEN req[r].pc = "backoff"
                 ELSE /\ req[r].pc = "done"
                      /\ req[r].result = HttpError(Last(req[r].outs))

\* C13 (as claimed): the delay before the n-th retry, computed when attempt
\* n has failed, is 100 * 2^(n-1) ms after a timeout and 500 * 2^(n-1) ms
\* after a connection failure, for every n >= 1 (100 = 25 * 2^2 and
\* 500 = 125 * 2^2).
C13_ExponentialDelays ==
    ( /\ probe.pc = "output"
      /\ probe.arm \in {"timeout", "connect"}
      /\ probe.e.is_timeout # probe.e.is_connect )
    => /\ ~probe.panicked
       /\ probe.e.is_timeout
          => probe.delay = [m |-> 25, e |-> probe.attempts + 1]
       /\ probe.e.is_connect
          => probe.delay = [m |-> 125, e |-> probe.attempts + 1]

\* C14: a request whose last attempt failed when its budget was used up
\* returns an error, never a success, and the error is that of the last
\* attempt: the transport error of that attempt wrapped in HttpError.
C14_LastFailureReturned ==
    \A r \in Requests :
        ( /\ config.enable_retries
          /\ req[r].pc = "done"
          /\ req[r].attempts >= req[r].max_attempts
          /\ IsFailure(Last(req[r].outs)) )
        => /\ req[r].result \notin {OkPayload, NoResult}
           /\ Last(req[r].outs).kind = "transport"
              => req[r].result = HttpError(Last(req[r].outs))

\* Three attempts, a timeout first and a connection failure last: the
\* connection failure is what is returned.
C14_ThirdFailureReturned ==
    \E r \in Requests :
        /\ config.enable_retries
        /\ config.max_retries = 2
        /\ req[r].pc = "done"
        /\ Len(req[r].outs) = 3
        /\ IsTimeout(req[r].outs[1])
        /\ ~IsTimeout(req[r].outs[3])
        /\ req[r].outs[3].kind = "transport"
        /\ req[r].result = HttpError(req[r].outs[3])

\* A response that is a failure other than a rate limit.
IsTerminalResponse(o) ==
    /\ o.kind = "response"
    /\ o.status # 429
    /\ o.status = 200 => ~o.body_ok

\* C15: under every retry configuration, an attempt answered with a status
\* other than 200 and 429, or with a 200 whose body does not parse, is the
\* request's last: no attempt follows it, the request is over, and its
\* result is the error of that response (AuthenticationFailed for 401 and
\* 403, ApiError code 0 for the unparsable 200, ApiError with the status as
\* code otherwise).
C15_TerminalFailuresPropagate ==
    \A r \in Requests :
        \A i \in 1 .. Len(req[r].outs) :
            IsTerminalResponse(req[r].outs[i])
            => /\ i = Len(req[r].outs)
               /\ req[r].sent = i
               /\ Len(req[r].delays) = i - 1
               /\ req[r].pc = "done"
               /\ IF req[r].outs[i].status \in {401, 403}
                  THEN req[r].result = AuthenticationFailed
                  ELSE /\ req[r].result.tag = "ApiError"
                       /\ req[r].result.code =
                             IF req[r].outs[i].status = 200 THEN 0
                             ELSE req[r].outs[i].status

\* A first attempt answered 503 while retries are enabled and two retries
\* remain: the request is over after that one attempt.
C15_UnavailableNotRetried ==
    \E r \in Requests :
        /\ config.enable_retries
        /\ config.max_retries = 2
        /\ req[r].pc = "done"
        /\ req[r].sent = 1
        /\ IsStatus(req[r].outs[1], 503)
        /\ req[r].result.tag = "ApiError"

\* whether the string `part` occurs in the string `whole`
Contains(whole, part) ==
    \E i \in 1 .. Len(whole) + 1 :
        /\ i + Len(part) - 1 <= Len(whole)
        /\ SubSeq(whole, i, i + Len(part) - 1) = part

\* C16: the result of a request that ended with a completed response (one
\* whose body could be read) is the one the table gives for its status.
C16_ClassifierTable ==
    \A r \in Requests :
        ( /\ req[r].pc = "done"
          /\ Last(req[r].outs).kind = "response"
          /\ Last(req[r].outs).body # Unreadable )
        => LET o == Last(req[r].outs)
               res == req[r].result
           IN  CASE o.status = 200 ->
                        IF o.body_ok THEN res = OkPayload
                        ELSE res.tag = "ApiError" /\ res.code = 0
                 [] o.status = 400 -> res = ApiError(400, o.body)
                 [] o.status \in {401, 403} -> res = AuthenticationFailed
                 [] o.status = 404 ->
                        /\ res.tag = "ApiError"
                        /\ res.code = 404
                        /\ Contains(res.message, o.body)
                 [] o.status = 429 -> res.tag = "RateLimitExceeded"
                 [] o.status \in {500, 503} ->
                        res.tag = "ApiError" /\ res.code = o.status
                 [] OTHER -> res = ApiError(o.status, o.body)

\* A 404 with body EUR_XYZ classified ApiError 404 with the body in its
\* message.
C16_NotFoundNamesInstrument ==
    \E r \in Requests :
        /\ req[r].pc = "done"
        /\ IsStatus(Last(req[r].outs), 404)
        /\ Last(req[r].outs).body = <<"EUR_XYZ">>
        /\ req[r].result.tag = "ApiError"
        /\ req[r].result.code = 404
        /\ Contains(req[r].result.message, <<"EUR_XYZ">>)

\* C17: the hint of a 429 is the number the Retry-After header spells, and
\* 60 when the header is absent or spells no non-negative integer of
\* seconds: 60, 7, 0, 9 and 5 for "60", "7", "0", "009" and "+5"; 60 for
\* "-1", "soon", the empty value, a number beyond 64 bits and no header.
C17_RetryAfterHint ==
    \A r \in Requests :
        ( /\ req[r].pc = "done"
          /\ IsStatus(Last(req[r].outs), 429) )
        => LET header == Last(req[r].outs).retry_after
           IN  req[r].result =
                 RateLimitExceeded(
                   CASE header = <<"6", "0">> -> 60
                     [] header = <<"7">> -> 7
                     [] header = <<"0">> -> 0
                     [] header = <<"0", "0", "9">> -> 9
                     [] header = <<"+", "5">> -> 5
                     [] OTHER -> 60)

\* A 429 whose Retry-After is not a number, answered with the default hint.
C17_UnparsableDefaults ==
    \E r \in Requests :
        /\ req[r].pc = "done"
        /\ IsStatus(Last(req[r].outs), 429)
        /\ Last(req[r].outs).retry_after = <<"s", "o", "o", "n">>
        /\ req[r].result = RateLimitExceeded(60)

\* C18 (as claimed): a logical request ends in no other way than by
\* returning one result, a payload or an error: whenever it is no longer
\* running it has returned, and what it returned is a result.
C18_EndsWithOneResult ==
    \A r \in Requests :
        \/ req[r].pc \in {"start", "wait", "send", "backoff"}
        \/ /\ req[r].pc = "done"
           /\ req[r].result # NoResult

\* C19: an attempt that yields a response is the request's last: the
\* request is over, with no attempt sent, no permit acquired and no backoff
\* taken after it, however many failed attempts came before; a 200 that
\* parses is returned as the payload.
C19_ResponseEndsRequest ==
    \A r \in Requests :
        \A i \in 1 .. Len(req[r].outs) :
            req[r].outs[i].kind = "response"
            => /\ i = Len(req[r].outs)
               /\ req[r].pc = "done"
               /\ req[r].sent = i
               /\ req[r].acquired = i
               /\ Len(req[r].delays) = i - 1
               /\ (req[r].outs[i].status = 200 /\ req[r].outs[i].body_ok)
                  => req[r].result = OkPayload

\* A success on the second attempt, after a timeout, with a third attempt
\* still in the budget.
C19_SuccessAfterTimeout ==
    \E r \in Requests :
        /\ config.enable_retries
        /\ config.max_retries = 2
        /\ Len(req[r].outs) = 2
        /\ IsTimeout(req[r].outs[1])
        /\ IsStatus(req[r].outs[2], 200)
        /\ req[r].result = OkPayload
        /\ req[r].sent = 2

(* ================== claims about the limiter, continued ================ *)

\* C20 (as claimed): as long as time advances, every task suspended in
\* acquire() is eventually granted its permit, also while other tasks keep
\* calling the limiter.
C20_EveryWaiterGranted ==
    \A c \in Callers : (caller[c].pc = "wait") ~> (caller[c].pc = "idle")

\* C21: a try_acquire() that returns None leaves the limiter as it found it:
\* the step that records a refusal changes neither the limiter's state nor
\* the instant at which the next permit becomes available.
C21_RefusalLeavesLimiter ==
    [][refusals' # refusals =>
          /\ limiter' = limiter
          /\ EarliestTime(limiter') = EarliestTime(limiter)
          /\ grants' = grants]_vars

\* A call refused between two admissions of a limiter of rate 1: the second
\* admission comes exactly one replenish interval after the first.
C21_RefusedThenOnTime ==
    /\ Cap = 1
    /\ Len(grants) = 2
    /\ grants[2].at = grants[1].at + TicksPerToken
    /\ \E i \in 1 .. Len(refusals) :
          /\ refusals[i].granted = 1
          /\ refusals[i].at >= grants[1].at
          /\ refusals[i].at < grants[2].at

\* C22: whatever the length of the idle time before, the admissions made at
\* one instant never exceed the capacity C: idle time is not credited.
C22_IdleNotCredited ==
    limiter.exists =>
        \A t \in 0 .. MaxTime :
            Cardinality({k \in 1 .. Len(grants) : grants[k].at = t}) <= Cap

\* After idling up to the last instant, exactly C calls are admitted at that
\* instant and the next one is refused.
C22_BurstAfterIdle ==
    /\ Cap = MaxRate
    /\ Len(grants) = Cap
    /\ \A k \in 1 .. Len(grants) : grants[k].at = MaxTime
    /\ \E i \in 1 .. Len(refusals) : refusals[i].at = MaxTime /\ refusals[i].granted = Cap

\* C23: refill is continuous: the limiter admits again at most one replenish
\* interval 1/R after its latest admission, a call is refused only within
\* that interval, and a waiting caller is due within it.
C23_ContinuousRefill ==
    /\ grants # <<>> => EarliestTime(limiter) <= Last(grants).at + TicksPerToken
    /\ \A i \in 1 .. Len(refusals) :
          /\ refusals[i].granted >= 1
          /\ refusals[i].at < grants[refusals[i].granted].at + TicksPerToken
    /\ \A c \in Callers :
          caller[c].pc = "wait" =>
              /\ grants # <<>>
              /\ caller[c].wake <= Last(grants).at + TicksPerToken

\* A burst of two at instant 0 exhausts the limiter, a third call is refused,
\* and try_acquire() succeeds again one replenish interval later.
C23_RefillAfterOneInterval ==
    /\ Cap = 2
    /\ Len(grants) = 3
    /\ grants[1].at = 0 /\ grants[2].at = 0
    /\ \E i \in 1 .. Len(refusals) : refusals[i].at = 0 /\ refusals[i].granted = 2
    /\ grants[3] = [at |-> TicksPerToken, op |-> "try_acquire", waited |-> FALSE]

\* C25: a limiter is never built for a rate of zero: construction panics, so
\* no call is ever admitted, refused or kept waiting by such a limiter, and
\* every limiter that exists has a capacity of at least one.
C25_ZeroRateRejected ==
    /\ config.requests_per_second = 0 =>
          /\ ~limiter.exists
          /\ grants = <<>> /\ refusals = <<>>
          /\ \A c \in Callers : caller[c].pc = "idle"
    /\ limiter.exists => limiter.max_burst >= 1 /\ limiter.max_burst = config.requests_per_second

\* Construction with a zero rate has panicked and time moves on without a
\* limiter.
C25_ZeroRatePanicked ==
    /\ config.requests_per_second = 0
    /\ ~limiter.exists
    /\ now = MaxTime

\* C24: cancelling a logical request at any of its suspension points leaves
\* the limiter as it is: the step that cancels a request, like the step that
\* completes it, does not change the limiter; the limiter changes only by
\* admitting an attempt that is then sent, so a wait that is cancelled has
\* consumed nothing; and no step ever hands a cell back (the theoretical
\* arrival time never decreases).
C24_CancelLeavesLimiter ==
    [][/\ limiter'.tat >= limiter.tat
       /\ \A r \in Requests :
             /\ req'[r].pc \in {"cancelled", "done"} /\ req[r].pc # req'[r].pc
                    => limiter' = limiter
             /\ req[r].pc = "cancelled" => req'[r] = req[r]
       /\ limiter' # limiter =>
             \E r \in Requests :
                 /\ limiter' = GovernorAdmit(limiter, now)
                 /\ req'[r].acquired = req[r].acquired + 1
                 /\ req'[r].sent = req[r].sent + 1
                 /\ req'[r].pc = "send"]_vars

\* A request of a rate-1 client is cancelled while it waits in acquire() for
\* the permit of its second attempt: the limiter holds what the first attempt
\* consumed at instant 0 and nothing more.
C24_CancelledWhileWaiting ==
    \E r \in Requests :
        /\ req[r].pc = "cancelled"
        /\ req[r].dropped = "wait"
        /\ req[r].attempts = 2
        /\ req[r].acquired = 1 /\ req[r].sent = 1
        /\ limiter = GovernorAdmit(RateLimiterNew(1), 0)

\* C27: get_candles with count > 5000 returns a ConfigError without entering
\* the pipeline (no permit acquired, no attempt sent); a count of at most
\* 5000 is never turned down and goes through the pipeline, one permit per
\* attempt.
C27_CountCheckedFirst ==
    \A h \in Handles :
        req[h].endpoint = "get_candles" =>
            /\ req[h].count > MaxCandles =>
                  /\ req[h].acquired = 0 /\ req[h].sent = 0 /\ req[h].outs = <<>>
                  /\ req[h].pc \in {"start", "done"}
                  /\ req[h].pc = "done" => req[h].returned = CountError(req[h].count)
            /\ req[h].count <= MaxCandles =>
                  /\ req[h].returned.tag # "ConfigError"
                  /\ req[h].pc \notin {"start", "wait"} =>
                        req[h].sent >= 1 /\ req[h].acquired = req[h].sent

\* get_candles with count 5001 has returned its error, untouched by the
\* limiter, while the clone's request went through the pipeline.
C27_TooManyRejected ==
    /\ req["client"].endpoint = "get_candles"
    /\ req["client"].count = MaxCandles + 1
    /\ req["client"].pc = "done"
    /\ req["client"].returned.tag = "ConfigError"
    /\ req["client"].acquired = 0
    /\ req["clone"].pc = "done" /\ req["clone"].sent = 1

\* C28: health_check returns Ok(true) exactly when its account-summary
\* request succeeded, Ok(false) exactly when that request ended in
\* AuthenticationFailed, and the request's own error otherwise; it stays
\* within the attempts of one logical request.
C28_HealthCheckMapping ==
    \A h \in Handles :
        req[h].endpoint = "health_check" =>
            /\ req[h].sent <= (IF config.enable_retries /\ config.max_retries > 0
                               THEN config.max_retries + 1 ELSE 1)
            /\ req[h].pc = "done" =>
                  /\ req[h].returned = OkValue(TRUE) <=> req[h].result.tag = "Ok"
                  /\ req[h].returned = OkValue(FALSE) <=>
                        req[h].result = AuthenticationFailed
                  /\ req[h].returned.tag # "Ok" => req[h].returned = req[h].result
                  /\ req[h].returned # NoResult

\* health_check has answered Ok(false) to a 401 on its only attempt.
C28_UnauthorizedIsFalse ==
    /\ req["client"].endpoint = "health_check"
    /\ req["client"].pc = "done"
    /\ req["client"].sent = 1
    /\ IsStatus(Last(req["client"].outs), 401)
    /\ req["client"].returned = OkValue(FALSE)

\* C29 (as claimed): is_retryable is true of an error exactly when the
\* pipeline treats its kind as retryable: true of Timeout, RateLimitExceeded
\* and a transport failure that is a timeout or a connection failure, false
\* of every other error, a transport error of another kind included.
C29_RetryableMatchesPipeline ==
    \A r \in Requests :
        req[r].pc = "done" /\ req[r].returned.tag # "Ok" =>
            (req[r].retryable <=>
                \/ req[r].returned.tag \in {"Timeout", "RateLimitExceeded"}
                \/ /\ req[r].returned.tag = "HttpError"
                   /\ IsRetryableTransport(req[r].returned.e))

\* C26: the configuration is validated before anything is constructed: a
\* build of a configuration with an empty API key, an empty account id, a
\* zero timeout or a zero rate, whichever setters were called before, returns
\* a ConfigError and leaves no client and no limiter; a client that is built
\* has a valid configuration and a limiter of its rate; RateLimiter::new never
\* panics.
C26_ValidatedBeforeBuilt ==
    LET invalid == \/ probe.cfg.api_key = ""
                   \/ probe.cfg.account_id = ""
                   \/ probe.cfg.timeout_seconds = 0
                   \/ probe.cfg.requests_per_second = 0
    IN  /\ probe.pc # "panicked"
        /\ probe.pc = "builder" => ~limiter.exists /\ config = NoConfig
        /\ probe.pc \in {"rejected", "built"} /\ invalid =>
              /\ probe.pc = "rejected"
              /\ probe.result.tag = "ConfigError"
              /\ ~limiter.exists /\ config = NoConfig
        /\ probe.pc = "built" =>
              /\ ~invalid
              /\ limiter.exists
              /\ limiter.max_burst = probe.cfg.requests_per_second
              /\ config.requests_per_second = probe.cfg.requests_per_second

\* A builder whose last setter call was rate_limit(0) on an otherwise valid
\* configuration: build() returned the ConfigError about the rate.
C26_ZeroRateThroughBuilder ==
    /\ probe.pc = "rejected"
    /\ probe.last = "rate_limit"
    /\ probe.cfg.api_key # "" /\ probe.cfg.account_id # ""
    /\ probe.cfg.timeout_seconds # 0
    /\ probe.cfg.requests_per_second = 0
    /\ probe.result = ConfigError(<<"Requests per second must be greater than 0">>)
    /\ ~limiter.exists

\* Two characters that differ at most in letter case.
SameLetter(c, d) ==
    \/ c = d
    \/ \E pair \in {{"S", "s", LongS}, {"M", "m"}, {"H", "h"}, {"D", "d"},
                       {"W", "w"}} :
          c \in pair /\ d \in pair

\* Two texts that differ at most in letter case.
SameIgnoringCase(s, t) ==
    /\ Len(s) = Len(t)
    /\ \A i \in 1 .. Len(s) : SameLetter(s[i], t[i])

\* C30: the text written for a Granularity parses back to it; a text that
\* differs from the name of a variant at most in letter case parses to that
\* variant; every other text yields InvalidGranularity with the text as it
\* was given.
C30_GranularityRoundTrip ==
    probe.pc = "parsed" =>
        /\ probe.g # "none" => probe.parsed = OkGranularity(probe.g)
        /\ \A g \in Granularities :
              SameIgnoringCase(probe.text, Display(g)) =>
                  probe.parsed = OkGranularity(g)
        /\ (\A g \in Granularities : ~SameIgnoringCase(probe.text, Display(g))) =>
              probe.parsed = InvalidGranularity(probe.text)

\* The monthly granularity was written as "M" and read back, not to be
\* confused with the minute granularities that start with the same letter.
C30_MonthReadBack ==
    /\ probe.pc = "parsed"
    /\ probe.g = "M"
    /\ probe.text = <<"M">>
    /\ probe.parsed = OkGranularity("M")

\* C31: the steps of one logical request are strictly ordered.  An attempt
\* is sent only in the step in which the limiter admits it, so its acquire()
\* has completed; a backoff starts only from a failed attempt, leaves the
\* limiter alone and lasts at least the computed delay; while a request backs
\* off every permit it acquired belongs to a completed attempt, and it asks
\* for the next one only once the sleep is over.
C31_StepsOrdered ==
    [][\A r \in Requests :
          /\ req'[r].pc = "send" /\ req[r].pc # "send" =>
                /\ GovernorConforms(limiter, now)
                /\ limiter' = GovernorAdmit(limiter, now)
                /\ req'[r].acquired = req[r].acquired + 1
                /\ req'[r].sent = req[r].sent + 1
          /\ req'[r].pc = "backoff" /\ req[r].pc # "backoff" =>
                /\ req[r].pc = "send"
                /\ limiter' = limiter
                /\ req'[r].acquired = Len(req'[r].outs)
                /\ req'[r].sent = Len(req'[r].outs)
                /\ req'[r].wake <= MaxTime =>
                      (req'[r].wake - now) * 1000 >=
                          Last(req'[r].delays).m * Pow2(Last(req'[r].delays).e)
                              * config.requests_per_second * TicksPerToken
          /\ req[r].pc = "backoff" /\ req'[r] # req[r] =>
                /\ now >= req[r].wake
                /\ req'[r].attempts = req[r].attempts + 1
                /\ req'[r].pc \in {"wait", "send"}
                /\ req'[r].delays = req[r].delays]_vars

\* After a connection failure at instant 0 the second attempt of a request
\* is sent at the instant the 500 ms sleep ends, on a permit of its own.
C31_SentAfterBackoff ==
    \E r \in Requests :
        /\ req[r].pc = "send"
        /\ req[r].attempts = 2
        /\ req[r].acquired = 2 /\ req[r].sent = 2
        /\ req[r].delays = <<U64(ConnectBaseMs)>>
        /\ config.requests_per_second = MaxRate
        /\ now = SleepWake(0, U64(ConnectBaseMs), MaxRate)

\* The request has entered request_with_retry: it is under way, or it has
\* returned after at least one attempt.
InLoop(rq) ==
    \/ rq.pc \in {"wait", "send", "backoff"}
    \/ rq.pc = "done" /\ rq.outs # <<>>

\* The attempt counter, the budget and the delays a request has when its own
\* attempts had the outcomes rq.outs, as if it ran alone on the client.
OwnLocals(rq) ==
    /\ rq.max_attempts = (IF config.enable_retries /\ InLoop(rq)
                          THEN config.max_retries + 1 ELSE 0)
    /\ rq.attempts = (IF ~config.enable_retries \/ ~InLoop(rq) THEN 0
                      ELSE IF rq.pc \in {"wait", "send"} THEN Len(rq.outs) + 1
                      ELSE Len(rq.outs))
    /\ Len(rq.delays) = (IF rq.pc = "backoff" THEN Len(rq.outs)
                         ELSE IF rq.pc = "done" /\ rq.outs # <<>> THEN Len(rq.outs) - 1
                         ELSE IF rq.pc = "done" THEN 0
                         ELSE Len(rq.outs))
    /\ \A i \in 1 .. Len(rq.delays) :
          rq.delays[i] = U64((IF rq.outs[i].is_timeout THEN TimeoutBaseMs
                              ELSE ConnectBaseMs) * Pow2(i - 1))

\* C32: concurrent requests on one client share nothing but the limiter: a
\* step changes the locals of one request at most, it changes them only
\* together with the limiter or not at all for the others, and in every
\* interleaving each request's attempt counter, budget and delays are those
\* its own outcomes give, whatever the other request has done.
C32_RequestsIndependent ==
    [][/\ \A g, h \in Handles :
             g # h /\ req'[g] # req[g] => req'[h] = req[h]
       /\ \A h \in Handles : OwnLocals(req'[h])]_vars

\* The client's request is backing off after its first failure while the
\* clone's request has used up its budget and returned.
C32_OneRetriesOtherDone ==
    /\ req["client"].pc = "backoff"
    /\ req["client"].attempts = 1
    /\ req["client"].delays = <<U64(TimeoutBaseMs)>>
    /\ req["clone"].pc = "done"
    /\ req["clone"].attempts = 2
    /\ req["clone"].delays = <<U64(ConnectBaseMs)>>

\* The number of failures of the kind of outs[i] among the attempts before
\* the i-th, a failure being of the kind of the arm that handles it.
SameKindBefore(outs, i) ==
    Cardinality({j \in 1 .. i - 1 : outs[j].is_timeout = outs[i].is_timeout})

\* The base, in ms, of the arm that handles the transport error e.
BaseOf(e) == IF e.is_timeout THEN TimeoutBaseMs ELSE ConnectBaseMs

\* C33 (as claimed): the delay after a failure depends only on the number of
\* earlier failures of its own kind: base * 2^k after k earlier failures of
\* that kind.
C33_SeparateCounters ==
    \A r \in Requests :
        \A i \in 1 .. Len(req[r].delays) :
            req[r].delays[i] =
                U64(BaseOf(req[r].outs[i]) * Pow2(SameKindBefore(req[r].outs, i)))

\* C33 (amended): the two kinds differ in their base only and share one
\* counter: the delay after the failure of attempt i is base * 2^(i-1),
\* whatever the kinds of the earlier failures.
C33_SharedCounter ==
    \A r \in Requests :
        \A i \in 1 .. Len(req[r].delays) :
            /\ req[r].outs[i].kind = "transport"
            /\ req[r].delays[i] = U64(BaseOf(req[r].outs[i]) * Pow2(i - 1))

\* A first connection failure that follows a timeout: the request sleeps
\* 1000 ms, not 500 ms.
C33_ConnectAfterTimeout ==
    \E r \in Requests :
        /\ req[r].pc = "backoff"
        /\ Len(req[r].outs) = 2
        /\ req[r].outs[1].is_timeout /\ ~req[r].outs[1].is_connect
        /\ ~req[r].outs[2].is_timeout /\ req[r].outs[2].is_connect
        /\ req[r].delays = <<U64(TimeoutBaseMs), U64(2 * ConnectBaseMs)>>

\* C34 (as claimed): a request that has returned after failing on every
\* attempt with a timeout or a connection failure made maxRetries + 1
\* attempts and slept exactly maxRetries times, once after every attempt but
\* the last.
C34_SleepsMaxRetriesTimes ==
    \A r \in Requests :
        /\ config.enable_retries
        /\ req[r].pc = "done"
        /\ \A i \in 1 .. Len(req[r].outs) : IsRetryableTransport(req[r].outs[i])
        => /\ Len(req[r].outs) - 1 = config.max_retries
           /\ Len(req[r].delays) = config.max_retries

\* C36 (as claimed): the retry arithmetic never overflows: no evaluation
\* panics, the budget max_retries + 1 is at least 1, and whenever the budget
\* allows a retry after attempt n, base * 2^(n-1) is below 2^64, that is the
\* binary digits of the base and the n - 1 of the shift are at most 64.
C36_NoOverflow ==
    probe.pc = "output" =>
        /\ ~probe.panicked
        /\ probe.max_attempts >= 1
        /\ probe.arm \in {"timeout", "connect"} =>
              BitLen(BaseOf(probe.e)) + probe.attempts - 1 <= U64Bits

\* What one attempt with outcome o and nothing else gives the caller.
SingleAttemptResult(o) ==
    IF o.kind = "transport" THEN HttpError(o) ELSE HandleResponseResult(o)

\* C35: retries enabled with max_retries = 0 and retries disabled cannot be
\* told apart: under either configuration a request makes one attempt on one
\* permit, never sleeps, and returns what the outcome of that attempt gives,
\* the same under both.
C35_ZeroRetriesAsDisabled ==
    \A r \in Requests :
        ~config.enable_retries \/ config.max_retries = 0 =>
            /\ req[r].pc \in {"start", "wait", "send", "done"}
            /\ req[r].sent <= 1 /\ req[r].acquired = req[r].sent
            /\ req[r].delays = <<>>
            /\ req[r].pc = "done" =>
                  /\ req[r].sent = 1
                  /\ Len(req[r].outs) = 1
                  /\ req[r].returned = SingleAttemptResult(req[r].outs[1])

\* With retries enabled and max_retries = 0 a timeout of the only attempt has
\* been returned as HttpError without a sleep.
C35_EnabledZeroTimeout ==
    \E r \in Requests :
        /\ config.enable_retries /\ config.max_retries = 0
        /\ req[r].pc = "done"
        /\ req[r].sent = 1 /\ req[r].acquired = 1
        /\ req[r].outs[1].kind = "transport" /\ req[r].outs[1].is_timeout
        /\ req[r].delays = <<>>
        /\ req[r].returned = HttpError(req[r].outs[1])

\* C37: the budget is checked first and then timeout before connection
\* failure: a failure that was followed by a sleep left budget
\* (i < max_attempts) and slept on the 100 ms track whenever it was a
\* timeout, a connection failure or not, and on the 500 ms track only when it
\* was a connection failure and no timeout; a failure of the attempt that
\* used up the budget is returned as HttpError without a sleep, timeout or
\* connection failure though it be.
C37_BudgetThenTimeoutThenConnect ==
    \A r \in Requests :
        /\ \A i \in 1 .. Len(req[r].delays) :
              /\ i < req[r].max_attempts
              /\ req[r].outs[i].is_timeout =>
                    req[r].delays[i] = U64(TimeoutBaseMs * Pow2(i - 1))
              /\ ~req[r].outs[i].is_timeout =>
                    /\ req[r].outs[i].is_connect
                    /\ req[r].delays[i] = U64(ConnectBaseMs * Pow2(i - 1))
        /\ ( /\ config.enable_retries
             /\ req[r].outs # <<>>
             /\ Last(req[r].outs).kind = "transport"
             /\ Len(req[r].outs) >= req[r].max_attempts
             /\ req[r].pc # "send" )
           => /\ req[r].pc = "done"
              /\ Len(req[r].delays) = Len(req[r].outs) - 1
              /\ req[r].result = HttpError(Last(req[r].outs))

\* A connect timeout on the first attempt was followed by a sleep of 100 ms,
\* and the timeout of the third and last attempt was returned at once.
C37_ConnectTimeoutThenLast ==
    \E r \in Requests :
        /\ config.max_retries = 2
        /\ req[r].pc = "done"
        /\ Len(req[r].outs) = 3
        /\ req[r].outs[1].is_timeout /\ req[r].outs[1].is_connect
        /\ req[r].delays[1] = U64(TimeoutBaseMs)
        /\ Len(req[r].delays) = 2
        /\ req[r].outs[3].is_timeout
        /\ req[r].result = HttpError(req[r].outs[3])

=============================================================================
